---- MODULE Spec2Model ----
(***************************************************************************)
(* Storefront cart / checkout consistency model.                           *)
(*                                                                         *)
(* The Record Store is the Postgres schema with its CHECK constraints and  *)
(* row-level-security policies; the client is the React hooks useCart and  *)
(* the CheckoutModal's handleCheckout.  Every `await` on a store call is a *)
(* suspend point: the store applies the call (or rejects it) and the       *)
(* continuation of the handler runs up to the next await in one step.      *)
(***************************************************************************)
EXTENDS Integers, Sequences, FiniteSets, TLC

\* ------------------------------------------------------------------ bounds
Products == {"p1", "p2"}
Users    == {"u1", "u2"}
Sessions == {"s1", "s2"}
\* components of one page that each call useCart() and so each hold a cart
Holders  == {"sidebar", "modal"}
\* components of one page that call useAuth() and read its profile
AuthHooks == {"navbar", "modal"}
NoUser   == "none"

MaxQty    == 2      \* largest quantity of a cart row
MaxStock  == 2      \* largest initial stock of a product
MaxOrders == 2      \* checkouts started over one behaviour

\* catalog price of a product, in cents (products.price, decimal(10,2))
Price(p) == IF p = "p1" THEN 3 ELSE 5

VARIABLES
    products,           \* store: products rows, [Products -> [price, stock_quantity]]
    admins,             \* store: identities whose profile has is_admin = true
    cart_items,         \* store: cart_items rows, [Users -> [Products -> 0..MaxQty]], 0 = no row
    orders,             \* store: orders rows, a sequence; the id is the index
    order_items,        \* store: order_items rows
    user,               \* useAuth: the identity in session, per browser session
    cartItems,          \* useCart: the local cart entries of each holder
    fetching,           \* useCart: identities for which a fetchCartItems is awaiting the store
    showCheckoutModal,  \* App: whether the checkout modal is open
    pc,                 \* handleCheckout: where the handler is suspended
    co,                 \* handleCheckout: the values its closure holds
    inflight,           \* handleCheckout: store calls issued and not yet answered
    last,               \* how the last checkout ended: the failing step, the order it created
    toasts,             \* notifications raised by the last checkout
    calls,              \* useCart: add / update / remove calls awaiting the store, with their closures
    ret,                \* how the last hook function of the session ended
    profiles,           \* store: identities that have a profiles row (the id is the primary key)
    profile,            \* useAuth: the local profile of each hook instance, NoUser for null
    profileFetch,       \* useAuth: fetchProfile calls awaiting the store or the identity provider
    catalog,            \* App: the products state, the fetched product list
    searchQuery,        \* App: the text of the search box
    selectedCategory,   \* App: the category chosen, NoCategory for null
    filteredProducts    \* App: the list the page shows

vars == <<products, admins, cart_items, orders, order_items, user, cartItems,
          fetching, showCheckoutModal, pc, co, inflight, last, toasts, calls, ret,
          profiles, profile, profileFetch,
          catalog, searchQuery, selectedCategory, filteredProducts>>

\* the cart mutations of useCart: what is in flight and how the last one ended
ledger == <<calls, ret>>

store == <<products, admins, cart_items, orders, order_items>>

\* the profiles table, the local profiles and the profile fetches in flight
account == <<profiles, profile, profileFetch>>

\* the catalog view of App
view == <<catalog, searchQuery, selectedCategory, filteredProducts>>

\* selectedCategory before a category is chosen: useState(null)
NoCategory == "none"

\* ---------------------------------------------------------------- helpers
RECURSIVE cartTotalOfPrices(_)
\* cartTotal that adds each entry's price once, whatever its quantity
cartTotalOfPrices(items) ==
    IF items = <<>> THEN 0
    ELSE cartTotalOfPrices(SubSeq(items, 1, Len(items) - 1)) + items[Len(items)].price

RECURSIVE cartTotal(_)
\* cartItems.reduce((total, item) => total + (item.product.price * item.quantity), 0)
cartTotal(items) ==
    IF items = <<>> THEN 0
    ELSE cartTotal(SubSeq(items, 1, Len(items) - 1))
            + items[Len(items)].price * items[Len(items)].quantity

RECURSIVE cartCount(_)
\* cartItems.reduce((total, item) => total + item.quantity, 0)
cartCount(items) ==
    IF items = <<>> THEN 0
    ELSE cartCount(SubSeq(items, 1, Len(items) - 1)) + items[Len(items)].quantity

\* one cart_items row joined with its product: select(`*, product:products(*)`)
Joined(u, p) ==
    [product_id |-> p, quantity |-> cart_items[u][p],
     price |-> products[p].price, stock_quantity |-> products[p].stock_quantity]

CartRows(u) == {p \in Products : cart_items[u][p] > 0}

\* the orders in which a select without ORDER BY may return a set of rows
Orderings(S) ==
    {sq \in [1..Cardinality(S) -> S] : \A i, j \in 1..Cardinality(S) : sq[i] = sq[j] => i = j}

\* rows a select on cart_items returns for .eq('user_id', u).  The request
\* carries the token of the identity in session when it was issued, and that
\* identity is u, so policy "Users can manage own cart" (USING auth.uid() =
\* user_id) lets exactly the rows of u through, whoever is in session by the
\* time the answer arrives.
SelectCart(u) ==
    {[i \in 1..Len(ord) |-> Joined(u, ord[i])] : ord \in Orderings(CartRows(u))}

\* user, items, total: what the closure captured; jwt: the identity whose token
\* the call in flight carries (the one in session when it was issued);
\* order_id: the inserted order;
\* k: the entry the stock loop is at; log, acked: the store calls issued and the
\* ones answered without error; stock0, orders0: the store when the handler began
NoCheckout == [user |-> NoUser, jwt |-> NoUser, items |-> <<>>, total |-> 0, order_id |-> 0, k |-> 0,
               log |-> <<>>, acked |-> 0,
               stock0 |-> [p \in Products |-> 0], orders0 |-> 0]

NoOutcome == [failedAt |-> "none", order_id |-> 0]

\* no hook function has ended yet
\* via: the function of useCart that was called, error: the store's error,
\* toast: the toast raised, logged: console.error was called, raised: the
\* function threw to its caller
NoRet == [via |-> "none", error |-> "none", toast |-> "", logged |-> FALSE, raised |-> FALSE]

Running(s) == pc[s] \in {"order", "items", "stock", "clear"}

\* ------------------------------------------------------------------- Init
\* App before the product list has been fetched
ViewInit ==
    /\ catalog = <<>>
    /\ searchQuery = <<>>
    /\ selectedCategory = NoCategory
    /\ filteredProducts = <<>>

\* the client side of every session before anyone has signed in
ClientInit ==
    /\ user = [s \in Sessions |-> NoUser]
    /\ cartItems = [s \in Sessions |-> [h \in Holders |-> <<>>]]
    /\ fetching = [s \in Sessions |-> [h \in Holders |-> {}]]
    /\ showCheckoutModal = [s \in Sessions |-> FALSE]
    /\ pc = [s \in Sessions |-> "idle"]
    /\ co = [s \in Sessions |-> NoCheckout]
    /\ inflight = [s \in Sessions |-> {}]
    /\ last = [s \in Sessions |-> NoOutcome]
    /\ toasts = [s \in Sessions |-> {}]
    /\ calls = [s \in Sessions |-> {}]
    /\ ret = [s \in Sessions |-> NoRet]
    /\ profile = [s \in Sessions |-> [a \in AuthHooks |-> NoUser]]
    /\ profileFetch = [s \in Sessions |-> {}]

\* a products table with the given stock per product
ProductsWith(st) == [p \in Products |-> [price |-> Price(p), stock_quantity |-> st[p]]]

\* A store that satisfies the schema's constraints: any stock in 0..MaxStock,
\* any cart (the same rows for every identity, which keeps the other
\* identities' rows in view), u1 an administrator and u2 a customer.
Init ==
    /\ products \in {ProductsWith(st) : st \in [Products -> 0..MaxStock]}
    /\ admins = {"u1"}
    /\ cart_items \in {[u \in Users |-> c] : c \in [Products -> 0..MaxQty]}
    /\ orders = <<>>
    /\ order_items = {}
    /\ profiles = Users
    /\ ViewInit
    /\ ClientInit

\* ------------------------------------------------------- identity provider
\* the call fetchProfile(userId) of hook instance a awaits: the select, then
\* auth.getUser(), then the insert of the row of identity id
\* (the identity auth.getUser() returned); jwt: the identity whose token the
\* awaited call carries
ProfileCall(a, userId, at, id, jwt) ==
    [a |-> a, userId |-> userId, at |-> at, id |-> id, jwt |-> jwt]

\* onAuthStateChange with a session: setUser(u) and fetchProfile(u.id) in every
\* useAuth instance; every useCart effect runs fetchCartItems; both await the
\* store
SignIn(s, u) ==
    /\ user[s] = NoUser
    /\ user' = [user EXCEPT ![s] = u]
    /\ fetching' = [fetching EXCEPT ![s] = [h \in Holders |-> fetching[s][h] \cup {u}]]
    /\ profileFetch' = [profileFetch EXCEPT ![s] =
                            @ \cup {ProfileCall(a, u, "select", NoUser, u) : a \in AuthHooks}]
    /\ UNCHANGED <<store, cartItems, showCheckoutModal, pc, co, inflight, last, toasts>>
    /\ UNCHANGED ledger
    /\ UNCHANGED <<profiles, profile>>
    /\ UNCHANGED view

\* onAuthStateChange without a session: setUser(null) and setProfile(null) in
\* every useAuth instance; every useCart effect runs setCartItems([])
SignOut(s) ==
    /\ user[s] # NoUser
    /\ user' = [user EXCEPT ![s] = NoUser]
    /\ cartItems' = [cartItems EXCEPT ![s] = [h \in Holders |-> <<>>]]
    /\ profile' = [profile EXCEPT ![s] = [a \in AuthHooks |-> NoUser]]
    /\ UNCHANGED <<store, fetching, showCheckoutModal, pc, co, inflight, last, toasts>>
    /\ UNCHANGED ledger
    /\ UNCHANGED <<profiles, profileFetch>>
    /\ UNCHANGED view

\* ------------------------------------------------------------ cart ledger
\* FetchDone that adds the rows to the entries already held
FetchDoneMerges(s, h) ==
    \E u \in fetching[s][h] :
        /\ fetching' = [fetching EXCEPT ![s][h] = @ \ {u}]
        /\ \E rows \in SelectCart(u) :
              /\ cartItems' = [cartItems EXCEPT ![s][h] = @ \o rows]
              /\ ret' = [ret EXCEPT ![s] = [NoRet EXCEPT !.via = "fetchCartItems"]]
        /\ UNCHANGED <<store, user, showCheckoutModal, pc, co, inflight, last, toasts, calls>>
        /\ UNCHANGED account
        /\ UNCHANGED view

\* fetchCartItems resumes after its select: setCartItems(data) or, on error,
\* only a console.error
FetchDone(s, h) ==
    \E u \in fetching[s][h] :
        /\ fetching' = [fetching EXCEPT ![s][h] = @ \ {u}]
        /\ \/ \E rows \in SelectCart(u) :
                 /\ cartItems' = [cartItems EXCEPT ![s][h] = rows]
                 /\ ret' = [ret EXCEPT ![s] = [NoRet EXCEPT !.via = "fetchCartItems"]]
           \/ /\ UNCHANGED cartItems
              /\ ret' = [ret EXCEPT ![s] = [NoRet EXCEPT !.via = "fetchCartItems",
                                                         !.error = "fault", !.logged = TRUE]]
        /\ UNCHANGED <<store, user, showCheckoutModal, pc, co, inflight, last, toasts, calls>>
        /\ UNCHANGED account
        /\ UNCHANGED view

\* ------------------------------------------------------------------- App
\* CartSidebar's "Proceed to Checkout" (rendered when user && cartItems.length > 0)
\* calls App.handleCheckout: setShowCheckoutModal(true)
OpenCheckout(s) ==
    /\ user[s] # NoUser
    /\ cartItems[s]["sidebar"] # <<>>
    /\ ~showCheckoutModal[s]
    /\ showCheckoutModal' = [showCheckoutModal EXCEPT ![s] = TRUE]
    /\ UNCHANGED <<store, user, cartItems, fetching, pc, co, inflight, last, toasts>>
    /\ UNCHANGED ledger
    /\ UNCHANGED account
    /\ UNCHANGED view

\* ------------------------------------------------------ checkout workflow
\* the row handleCheckout inserts into orders
OrderRow(c) ==
    [user_id |-> c.user, total_amount |-> c.total,
     status |-> "confirmed", payment_status |-> "paid"]

\* cartItems.map(item => ({order_id, product_id, quantity, price: item.product.price}))
OrderItems(items, oid) ==
    {[order_id |-> oid, product_id |-> items[i].product_id,
      quantity |-> items[i].quantity, price |-> items[i].price] : i \in 1..Len(items)}

\* the value step 3 writes: item.product.stock_quantity - item.quantity
StockWrite(item) == item.stock_quantity - item.quantity

\* CanUpdateProducts that lets every authenticated identity update products
CanUpdateProductsAnyone(s) == co[s].jwt # NoUser

\* policy "Admins can manage products" (FOR ALL): the only policy that lets an
\* UPDATE see a products row
CanUpdateProducts(s) == co[s].jwt \in admins

\* the closure after it has issued store call req
Issue(c, req) == [c EXCEPT !.log = Append(@, req)]

\* the closure after the awaited call has returned without error
Ack(c) == [c EXCEPT !.acked = @ + 1]

\* NextAfter with the stock loop left out: the cart is cleared right after the lines
NextAfterSkipsStock(c, k) == "clear"

\* the call handleCheckout issues once the order_items insert or a stock update
\* has succeeded: the update of the next entry, or clearCart's delete
NextAfter(c, k) == IF k < Len(c.items) THEN "stock" ELSE "clear"

\* catch (error): toast.error('Failed to place order')
Fail(s, step) ==
    /\ pc' = [pc EXCEPT ![s] = "failed"]
    /\ last' = [last EXCEPT ![s] = [failedAt |-> step, order_id |-> co[s].order_id]]
    /\ toasts' = [toasts EXCEPT ![s] = @ \cup {"Failed to place order"}]
    /\ inflight' = [inflight EXCEPT ![s] = {}]
    /\ co' = [co EXCEPT ![s] = NoCheckout]

\* form.handleSubmit(handleCheckout) with no identity: a toast and nothing else
CheckoutNoUser(s) ==
    /\ showCheckoutModal[s]
    /\ ~Running(s)
    /\ user[s] = NoUser
    /\ toasts' = [toasts EXCEPT ![s] = {"Please connect to Supabase first"}]
    /\ pc' = [pc EXCEPT ![s] = "idle"]
    /\ last' = [last EXCEPT ![s] = NoOutcome]
    /\ UNCHANGED <<store, user, cartItems, fetching, showCheckoutModal, co, inflight>>
    /\ UNCHANGED ledger
    /\ UNCHANGED account
    /\ UNCHANGED view

\* form.handleSubmit(handleCheckout) with an identity: the handler closes over
\* this render's user, cartItems and cartTotal and issues the orders insert
StartCheckout(s) ==
    /\ showCheckoutModal[s]
    /\ ~Running(s)
    /\ user[s] # NoUser
    /\ Len(orders) + Cardinality({t \in Sessions : pc[t] = "order"}) < MaxOrders
    /\ co' = [co EXCEPT ![s] =
                Issue([NoCheckout EXCEPT !.user = user[s],
                                         !.jwt = user[s],
                                         !.items = cartItems[s]["modal"],
                                         !.total = cartTotal(cartItems[s]["modal"]),
                                         !.stock0 = [p \in Products |-> products[p].stock_quantity],
                                         !.orders0 = Len(orders)],
                      "order")]
    /\ pc' = [pc EXCEPT ![s] = "order"]
    /\ inflight' = [inflight EXCEPT ![s] = {"order"}]
    /\ last' = [last EXCEPT ![s] = NoOutcome]
    /\ toasts' = [toasts EXCEPT ![s] = {}]
    /\ UNCHANGED <<store, user, cartItems, fetching, showCheckoutModal>>
    /\ UNCHANGED ledger
    /\ UNCHANGED account
    /\ UNCHANGED view

\* step 1 answered without error (policy "Users can create own orders":
\* WITH CHECK auth.uid() = user_id): the row exists, the order_items insert is issued
OrderOk(s) ==
    /\ pc[s] = "order"
    /\ co[s].jwt = co[s].user
    /\ orders' = Append(orders, OrderRow(co[s]))
    /\ co' = [co EXCEPT ![s] = Issue(Ack([@ EXCEPT !.order_id = Len(orders) + 1,
                                                    !.jwt = user[s]]), "items")]
    /\ pc' = [pc EXCEPT ![s] = "items"]
    /\ inflight' = [inflight EXCEPT ![s] = {"items"}]
    /\ UNCHANGED <<products, admins, cart_items, order_items, user, cartItems, fetching,
                   showCheckoutModal, last, toasts>>
    /\ UNCHANGED ledger
    /\ UNCHANGED account
    /\ UNCHANGED view

\* OrderFail where the row was inserted although the call reported an error
OrderFailPersists(s) ==
    /\ pc[s] = "order"
    /\ Fail(s, "order")
    /\ orders' = Append(orders, OrderRow(co[s]))
    /\ UNCHANGED <<products, admins, cart_items, order_items, user, cartItems, fetching,
                   showCheckoutModal>>
    /\ UNCHANGED ledger
    /\ UNCHANGED account
    /\ UNCHANGED view

\* step 1 answered with an error: if (orderError) throw orderError
OrderFail(s) ==
    /\ pc[s] = "order"
    /\ Fail(s, "order")
    /\ UNCHANGED <<store, user, cartItems, fetching, showCheckoutModal>>
    /\ UNCHANGED ledger
    /\ UNCHANGED account
    /\ UNCHANGED view

\* step 2 answered without error (policy "Users can create order items for own
\* orders"): the lines exist; the first stock update, or the cart clear, is issued
ItemsOk(s) ==
    /\ pc[s] = "items"
    /\ orders[co[s].order_id].user_id = co[s].jwt
    /\ order_items' = order_items \cup OrderItems(co[s].items, co[s].order_id)
    /\ LET nxt == NextAfter(co[s], 0) IN
        /\ co' = [co EXCEPT ![s] = Issue(Ack([@ EXCEPT !.k = IF nxt = "stock" THEN 1 ELSE 0,
                                                        !.jwt = user[s]]), nxt)]
        /\ pc' = [pc EXCEPT ![s] = nxt]
        /\ inflight' = [inflight EXCEPT ![s] = {nxt}]
    /\ UNCHANGED <<products, admins, cart_items, orders, user, cartItems, fetching,
                   showCheckoutModal, last, toasts>>
    /\ UNCHANGED ledger
    /\ UNCHANGED account
    /\ UNCHANGED view

\* ItemsFail where the rows were inserted although the call reported an error
ItemsFailPartial(s) ==
    /\ pc[s] = "items"
    /\ Fail(s, "items")
    /\ order_items' = order_items \cup OrderItems(co[s].items, co[s].order_id)
    /\ UNCHANGED <<products, admins, cart_items, orders, user, cartItems, fetching,
                   showCheckoutModal>>
    /\ UNCHANGED ledger
    /\ UNCHANGED account
    /\ UNCHANGED view

\* step 2 answered with an error: if (itemsError) throw itemsError
ItemsFail(s) ==
    /\ pc[s] = "items"
    /\ Fail(s, "items")
    /\ UNCHANGED <<store, user, cartItems, fetching, showCheckoutModal>>
    /\ UNCHANGED ledger
    /\ UNCHANGED account
    /\ UNCHANGED view

\* the products table after UPDATE ... SET stock_quantity = v WHERE id = p in
\* session s; a session that may not update products matches no row
UpdateStock(s, p, v) ==
    IF CanUpdateProducts(s)
    THEN [products EXCEPT ![p].stock_quantity = v]
    ELSE products

\* the update violates CHECK (stock_quantity >= 0)
StockRejected(s, v) == CanUpdateProducts(s) /\ v < 0

\* step 3, entry k, answered without error: the next update, or the cart clear, is issued
StockOk(s) ==
    /\ pc[s] = "stock"
    /\ LET item == co[s].items[co[s].k]
           nxt  == NextAfter(co[s], co[s].k) IN
        /\ ~StockRejected(s, StockWrite(item))
        /\ products' = UpdateStock(s, item.product_id, StockWrite(item))
        /\ co' = [co EXCEPT ![s] = Issue(Ack([@ EXCEPT !.k = IF nxt = "stock" THEN @ + 1 ELSE @,
                                                        !.jwt = user[s]]), nxt)]
        /\ pc' = [pc EXCEPT ![s] = nxt]
        /\ inflight' = [inflight EXCEPT ![s] = {nxt}]
    /\ UNCHANGED <<admins, cart_items, orders, order_items, user, cartItems, fetching,
                   showCheckoutModal, last, toasts>>
    /\ UNCHANGED ledger
    /\ UNCHANGED account
    /\ UNCHANGED view

\* step 3, entry k, answered with an error: if (stockError) throw stockError
StockFail(s) ==
    /\ pc[s] = "stock"
    /\ Fail(s, "stock")
    /\ UNCHANGED <<store, user, cartItems, fetching, showCheckoutModal>>
    /\ UNCHANGED ledger
    /\ UNCHANGED account
    /\ UNCHANGED view

\* DeleteCart without the user_id filter and without the policy
DeleteCartOfAll(u) == [v \in Users |-> [p \in Products |-> 0]]

\* the cart_items table after DELETE ... WHERE user_id = u, issued with the
\* token of u (policy "Users can manage own cart")
DeleteCart(u) == [cart_items EXCEPT ![u] = [p \in Products |-> 0]]

\* toast.success('Order placed successfully!'); onClose()
Placed(s, notes) ==
    /\ toasts' = [toasts EXCEPT ![s] = @ \cup notes \cup {"Order placed successfully!"}]
    /\ showCheckoutModal' = [showCheckoutModal EXCEPT ![s] = FALSE]
    /\ pc' = [pc EXCEPT ![s] = "done"]
    /\ last' = [last EXCEPT ![s] = [failedAt |-> "none", order_id |-> co[s].order_id]]
    /\ inflight' = [inflight EXCEPT ![s] = {}]
    /\ co' = [co EXCEPT ![s] = NoCheckout]

\* step 4 answered without error (a delete that the policy lets match no row is
\* no error either): clearCart does setCartItems([])
ClearOk(s) ==
    /\ pc[s] = "clear"
    /\ cart_items' = IF co[s].jwt = co[s].user THEN DeleteCart(co[s].user) ELSE cart_items
    /\ cartItems' = [cartItems EXCEPT ![s]["modal"] = <<>>]
    /\ Placed(s, {})
    /\ UNCHANGED <<products, admins, orders, order_items, user, fetching>>
    /\ UNCHANGED ledger
    /\ UNCHANGED account
    /\ UNCHANGED view

\* ClearFail where clearCart lets the error through to handleCheckout's catch
ClearFailThrows(s) ==
    /\ pc[s] = "clear"
    /\ Fail(s, "clear")
    /\ UNCHANGED <<store, user, cartItems, fetching, showCheckoutModal>>
    /\ UNCHANGED ledger
    /\ UNCHANGED account
    /\ UNCHANGED view

\* step 4 answered with an error: clearCart catches it and toasts; handleCheckout goes on
ClearFail(s) ==
    /\ pc[s] = "clear"
    /\ Placed(s, {"Failed to clear cart"})
    /\ UNCHANGED <<store, user, cartItems, fetching>>
    /\ UNCHANGED ledger
    /\ UNCHANGED account
    /\ UNCHANGED view

\* what one browser session can do
Step(s) ==
    \/ \E u \in Users : SignIn(s, u)
    \/ \E h \in Holders : FetchDone(s, h)
    \/ OpenCheckout(s)
    \/ StartCheckout(s)
    \/ OrderOk(s)
    \/ OrderFail(s)
    \/ ItemsOk(s)
    \/ ItemsFail(s)
    \/ StockOk(s)
    \/ StockFail(s)
    \/ ClearOk(s)
    \/ ClearFail(s)

\* one browser session against the store
Next == Step("s1")

Spec == Init /\ [][Next]_vars

\* Two browser sessions racing for the last unit: every product has one unit
\* left, every identity's cart holds one unit of p1, and any identity may be
\* an administrator.
InitRace ==
    /\ products = ProductsWith([p \in Products |-> 1])
    /\ admins \in SUBSET Users
    /\ cart_items = [u \in Users |-> [p \in Products |-> IF p = "p1" THEN 1 ELSE 0]]
    /\ orders = <<>>
    /\ order_items = {}
    /\ profiles = Users
    /\ ViewInit
    /\ ClientInit

NextRace == \E s \in Sessions : Step(s)

SpecRace == InitRace /\ [][NextRace]_vars

\* ------------------------------------------- cart ledger: add, update, remove
MaxPending == 2     \* cart mutations of one session awaiting the store at once

\* the joined row a mutation's .select(`*, product:products(*)`).single() returns
Row(p, q) ==
    [product_id |-> p, quantity |-> q,
     price |-> products[p].price, stock_quantity |-> products[p].stock_quantity]

\* cartItems.findIndex(item => item.product_id === productId), 0 for -1
FindIndex(items, p) ==
    IF \E i \in 1..Len(items) : items[i].product_id = p
    THEN CHOOSE i \in 1..Len(items) :
            /\ items[i].product_id = p
            /\ \A j \in 1..(i - 1) : items[j].product_id # p
    ELSE 0

\* PutItem that appends without looking for an entry of the product
PutItemAppends(items, data) == Append(items, data)

\* addToCart's local update: newItems[existingIndex] = data, or [...cartItems, data]
PutItem(items, data) ==
    IF FindIndex(items, data.product_id) > 0
    THEN [items EXCEPT ![FindIndex(items, data.product_id)] = data]
    ELSE Append(items, data)

\* updateQuantity's local update: cartItems.map(item => item.product_id === productId ? data : item)
MapItem(items, data) ==
    [i \in 1..Len(items) |-> IF items[i].product_id = data.product_id THEN data ELSE items[i]]

\* removeFromCart's local update: cartItems.filter(item => item.product_id !== productId)
DropItem(items, p) ==
    LET Keep(item) == item.product_id # p IN SelectSeq(items, Keep)

\* what the function `via` of hook instance h closes over when it issues
\* store call op
Request(s, h, via, op, p, q) ==
    [via |-> via, op |-> op, h |-> h, product_id |-> p, quantity |-> q,
     user |-> user[s], items |-> cartItems[s][h]]

\* addToCart(productId, quantity): the upsert
AddRequest(s, h, p, q) == Request(s, h, "addToCart", "add", p, q)

\* removeFromCart(productId): the delete; it has no quantity
RemoveRequest(s, h, p) == Request(s, h, "removeFromCart", "remove", p, 0)

\* clearCart(): the delete of every row of the identity
ClearRequest(s, h) == Request(s, h, "clearCart", "clear", "all", 0)

\* UpdateRequest that sends every quantity to the store as an update
UpdateRequestNoDelegation(s, h, p, q) == Request(s, h, "updateQuantity", "update", p, q)

\* updateQuantity(productId, quantity): if (quantity <= 0) it awaits
\* removeFromCart(productId) of the same render and returns; else the update
UpdateRequest(s, h, p, q) ==
    IF q <= 0 THEN [RemoveRequest(s, h, p) EXCEPT !.via = "updateQuantity"]
    ELSE Request(s, h, "updateQuantity", "update", p, q)

\* the error the store answers call c with, "none" for success.  fault: the
\* call did not get through.  23505: the upsert names no onConflict, so it is
\* INSERT ... ON CONFLICT (id) with a fresh id, and a row for the pair violates
\* UNIQUE(user_id, product_id).  23514: CHECK (quantity > 0).  PGRST116:
\* .single() on an update that matched no row.  A delete that matches no row is
\* no error.  The call carries the token of c.user, so policy "Users can manage
\* own cart" is met.
StoreError(c, fault) ==
    IF fault THEN "fault"
    ELSE IF c.op = "add"
         THEN IF cart_items[c.user][c.product_id] > 0 THEN "23505"
              ELSE IF c.quantity <= 0 THEN "23514"
              ELSE "none"
    ELSE IF c.op = "update"
         THEN IF cart_items[c.user][c.product_id] = 0 THEN "PGRST116"
              ELSE IF c.quantity <= 0 THEN "23514"
              ELSE "none"
    ELSE "none"

\* the cart_items table after call c has been answered
StoreAfter(c, fault) ==
    IF StoreError(c, fault) # "none" THEN cart_items
    ELSE IF c.op = "clear" THEN DeleteCart(c.user)
    ELSE [cart_items EXCEPT ![c.user][c.product_id] = IF c.op = "remove" THEN 0 ELSE c.quantity]

\* LocalAfter that commits the change whatever the store answered
LocalAfterOptimistic(s, c, fault) ==
    IF c.op = "add" THEN PutItem(c.items, Row(c.product_id, c.quantity))
    ELSE IF c.op = "update" THEN MapItem(c.items, Row(c.product_id, c.quantity))
    ELSE IF c.op = "remove" THEN DropItem(c.items, c.product_id)
    ELSE <<>>

\* the cart entries of the hook instance after call c has been answered: the
\* success path builds them from the closure's cartItems, the catch block
\* leaves the state alone
LocalAfter(s, c, fault) ==
    IF StoreError(c, fault) # "none" THEN cartItems[s][c.h]
    ELSE IF c.op = "add" THEN PutItem(c.items, Row(c.product_id, c.quantity))
    ELSE IF c.op = "update" THEN MapItem(c.items, Row(c.product_id, c.quantity))
    ELSE IF c.op = "remove" THEN DropItem(c.items, c.product_id)
    ELSE <<>>

\* the toast of the success path ("" where there is none) or of the catch block
ToastAfter(c, fault) ==
    IF StoreError(c, fault) = "none"
    THEN (IF c.op = "add" THEN "Added to cart"
          ELSE IF c.op = "remove" THEN "Removed from cart" ELSE "")
    ELSE (IF c.op = "add" THEN "Failed to add to cart"
          ELSE IF c.op = "remove" THEN "Failed to remove from cart"
          ELSE IF c.op = "clear" THEN "Failed to clear cart"
          ELSE "Failed to update quantity")

\* store, local entries and notification after call c has been answered; every
\* await sits inside try / catch and nothing is rethrown
Answer(s, c, fault) ==
    [cart_items |-> StoreAfter(c, fault), items |-> LocalAfter(s, c, fault),
     error |-> StoreError(c, fault), toast |-> ToastAfter(c, fault),
     logged |-> StoreError(c, fault) # "none", raised |-> FALSE]

\* how call c ends, as the caller sees it
RetAfter(s, c, fault) ==
    [via |-> c.via, error |-> Answer(s, c, fault).error, toast |-> Answer(s, c, fault).toast,
     logged |-> Answer(s, c, fault).logged, raised |-> Answer(s, c, fault).raised]

\* a handler issues its store call and suspends
Send(s, c) ==
    /\ Cardinality(calls[s]) < MaxPending
    /\ calls' = [calls EXCEPT ![s] = @ \cup {c}]
    /\ UNCHANGED <<store, user, cartItems, fetching, showCheckoutModal,
                   pc, co, inflight, last, toasts, ret>>
    /\ UNCHANGED account
    /\ UNCHANGED view

\* addToCart with an identity in session
AddToCart(s, h, p, q) ==
    /\ user[s] # NoUser
    /\ Send(s, AddRequest(s, h, p, q))

\* AddNoUser that sends the upsert all the same
AddNoUserSends(s, h, p, q) ==
    /\ user[s] = NoUser
    /\ Send(s, AddRequest(s, h, p, q))

\* addToCart without an identity: toast.error('Please sign in to add items to cart'); return
AddNoUser(s, h, p, q) ==
    /\ user[s] = NoUser
    /\ ret' = [ret EXCEPT ![s] = [via |-> "addToCart", error |-> "AuthRequired",
                                  toast |-> "Please sign in to add items to cart",
                                  logged |-> FALSE, raised |-> FALSE]]
    /\ UNCHANGED <<store, user, cartItems, fetching, showCheckoutModal,
                   pc, co, inflight, last, toasts, calls>>
    /\ UNCHANGED account
    /\ UNCHANGED view

\* updateQuantity with an identity in session (without one it returns at once)
UpdateQuantity(s, h, p, q) ==
    /\ user[s] # NoUser
    /\ Send(s, UpdateRequest(s, h, p, q))

\* removeFromCart with an identity in session (without one it returns at once)
RemoveFromCart(s, h, p) ==
    /\ user[s] # NoUser
    /\ Send(s, RemoveRequest(s, h, p))

\* clearCart with an identity in session (without one it returns at once)
ClearCart(s, h) ==
    /\ user[s] # NoUser
    /\ Send(s, ClearRequest(s, h))

\* the store answers call c and the handler runs to its end
Respond(s, c, fault) ==
    /\ c \in calls[s]
    /\ calls' = [calls EXCEPT ![s] = @ \ {c}]
    /\ cart_items' = Answer(s, c, fault).cart_items
    /\ cartItems' = [cartItems EXCEPT ![s][c.h] = Answer(s, c, fault).items]
    /\ ret' = [ret EXCEPT ![s] = RetAfter(s, c, fault)]
    /\ UNCHANGED <<products, admins, orders, order_items, user, fetching,
                   showCheckoutModal, pc, co, inflight, last, toasts>>
    /\ UNCHANGED account
    /\ UNCHANGED view

\* quantities a caller may pass: the sidebar's minus button reaches 0
Quantities == 0..MaxQty

\* a handler of hook instance h is called for product p
Mutate(s, h, p) ==
    \/ \E q \in 1..MaxQty : AddToCart(s, h, p, q)
    \/ \E q \in Quantities : UpdateQuantity(s, h, p, q)
    \/ RemoveFromCart(s, h, p)
    \/ ClearCart(s, h)

\* the hook instance the cart is driven through
Ledger == "sidebar"

\* One browser session using the cart through one hook instance, each mutation
\* awaited before the next is called: sign in, load, add, update, remove, clear.
StepLedger(s) ==
    \/ \E u \in Users : SignIn(s, u)
    \/ FetchDone(s, Ledger)
    \/ calls[s] = {} /\ \E p \in Products : Mutate(s, Ledger, p)
    \/ \E c \in calls[s], fault \in BOOLEAN : Respond(s, c, fault)

NextLedger == StepLedger("s1")

\* a store in which every identity's cart holds one unit of each product and
\* stock is not at issue
InitLedger ==
    /\ products = ProductsWith([p \in Products |-> MaxStock])
    /\ admins = {"u1"}
    /\ cart_items = [u \in Users |-> [p \in Products |-> 1]]
    /\ orders = <<>>
    /\ order_items = {}
    /\ profiles = Users
    /\ ViewInit
    /\ ClientInit

SpecLedger == InitLedger /\ [][NextLedger]_vars

\* The same hook instance with up to MaxPending calls in flight at once (a
\* double click, a click while the last answer is awaited): any mutation of one
\* product, and the removal of the other.
StepOverlap(s) ==
    \/ \E u \in Users : SignIn(s, u)
    \/ FetchDone(s, Ledger)
    \/ Mutate(s, Ledger, "p1")
    \/ RemoveFromCart(s, Ledger, "p2")
    \/ \E c \in calls[s], fault \in BOOLEAN : Respond(s, c, fault)

NextOverlap == StepOverlap("s1")

SpecOverlap == InitLedger /\ [][NextOverlap]_vars

\* The same hook instance while the identity in session comes and goes:
\* mutations of one product, awaited one by one, may be answered after a sign
\* out or under the next identity.
StepAuth(s) ==
    \/ \E u \in Users : SignIn(s, u)
    \/ SignOut(s)
    \/ FetchDone(s, Ledger)
    \/ \E p \in Products, q \in 1..MaxQty : AddNoUser(s, Ledger, p, q)
    \/ calls[s] = {} /\ Mutate(s, Ledger, "p1")
    \/ \E c \in calls[s], fault \in BOOLEAN : Respond(s, c, fault)

NextAuth == StepAuth("s1")

SpecAuth == InitLedger /\ [][NextAuth]_vars

\* The cart and one checkout of one browser session while the identity in
\* session comes and goes: a sign out or a sign in may fall between any two
\* store calls; entries of one product are added and removed, one call at a
\* time, before the checkout.
StepOwner(s) ==
    \/ \E u \in Users : SignIn(s, u)
    \/ SignOut(s)
    \/ \E h \in Holders : FetchDone(s, h)
    \/ calls[s] = {} /\ orders = <<>> /\ ~Running(s) /\ AddToCart(s, Ledger, "p1", 1)
    \/ calls[s] = {} /\ orders = <<>> /\ ~Running(s) /\ RemoveFromCart(s, Ledger, "p1")
    \/ \E c \in calls[s], fault \in BOOLEAN : Respond(s, c, fault)
    \/ OpenCheckout(s)
    \/ calls[s] = {} /\ orders = <<>> /\ StartCheckout(s)
    \/ OrderOk(s)
    \/ OrderFail(s)
    \/ ItemsOk(s)
    \/ ItemsFail(s)
    \/ StockOk(s)
    \/ StockFail(s)
    \/ ClearOk(s)
    \/ ClearFail(s)

NextOwner == StepOwner("s1")

\* every identity's cart holds one unit of p1, one unit of every product is in
\* stock, u1 is an administrator
InitOwner ==
    /\ InitRace
    /\ admins = {"u1"}

SpecOwner == InitOwner /\ [][NextOwner]_vars

\* A second browser session of an identity: it signs in and, while the first
\* session's checkout is in progress, adds a unit of the product that the
\* identity's cart does not hold yet.
StepOther(s) ==
    \/ \E u \in Users : SignIn(s, u)
    \/ FetchDone(s, Ledger)
    \/ calls[s] = {} /\ (\E t \in Sessions \ {s} : Running(t)) /\ AddToCart(s, Ledger, "p2", 1)
    \/ \E c \in calls[s], fault \in BOOLEAN : Respond(s, c, fault)

NextShared == Step("s1") \/ StepOther("s2")

SpecShared == InitOwner /\ [][NextShared]_vars

\* ------------------------------------------------------- catalog prices
\* the prices the catalog uses
Prices == {Price(p) : p \in Products}

\* ChangePrice that also rewrites the price of the persisted lines of the product
ChangePriceRepricesLines(p, v) ==
    /\ admins # {}
    /\ v # products[p].price
    /\ products' = [products EXCEPT ![p].price = v]
    /\ order_items' = {[l EXCEPT !.price = IF l.product_id = p THEN v ELSE @] : l \in order_items}
    /\ UNCHANGED <<admins, cart_items, orders, user, cartItems, fetching,
                   showCheckoutModal, pc, co, inflight, last, toasts, ledger>>
    /\ UNCHANGED account
    /\ UNCHANGED view

\* an administrator gives product p the price v: UPDATE products SET price = v
\* WHERE id = p, which policy "Admins can manage products" allows; no
\* trigger or foreign key carries the new price anywhere else
ChangePrice(p, v) ==
    /\ admins # {}
    /\ v # products[p].price
    /\ products' = [products EXCEPT ![p].price = v]
    /\ UNCHANGED <<admins, cart_items, orders, order_items, user, cartItems, fetching,
                   showCheckoutModal, pc, co, inflight, last, toasts, ledger>>
    /\ UNCHANGED account
    /\ UNCHANGED view

\* one browser session checking out while the catalog is repriced
StepCatalog(s) ==
    \/ Step(s)
    \/ \E p \in Products, v \in Prices : ChangePrice(p, v)

NextCatalog == StepCatalog("s1")

\* the stores of Init in which every product is fully stocked
InitCatalog ==
    /\ Init
    /\ products = ProductsWith([p \in Products |-> MaxStock])

SpecCatalog == InitCatalog /\ [][NextCatalog]_vars

\* ---------------------------------------------------------------- profiles
\* how a step of fetchProfile ends, as the caller sees it; nothing is thrown,
\* so nothing is logged
ProfileRet(error) == [NoRet EXCEPT !.via = "fetchProfile", !.error = error]

\* the select ... .eq('id', userId).single() is answered (policy "Users can
\* read own profile"; the call carries the token of userId).  A row:
\* setProfile(data).  No row: error PGRST116, and the function awaits
\* auth.getUser() with the session of that moment.  Any other error: nothing.
ProfileSelected(s, c, fault) ==
    /\ c \in profileFetch[s]
    /\ c.at = "select"
    /\ IF fault
       THEN /\ profileFetch' = [profileFetch EXCEPT ![s] = @ \ {c}]
            /\ ret' = [ret EXCEPT ![s] = ProfileRet("fault")]
            /\ UNCHANGED profile
       ELSE IF c.userId \in profiles
       THEN /\ profileFetch' = [profileFetch EXCEPT ![s] = @ \ {c}]
            /\ profile' = [profile EXCEPT ![s][c.a] = c.userId]
            /\ ret' = [ret EXCEPT ![s] = ProfileRet("none")]
       ELSE /\ profileFetch' = [profileFetch EXCEPT ![s] =
                                    (@ \ {c}) \cup {[c EXCEPT !.at = "getUser", !.jwt = user[s]]}]
            /\ ret' = [ret EXCEPT ![s] = ProfileRet("PGRST116")]
            /\ UNCHANGED profile
    /\ UNCHANGED <<store, profiles, user, cartItems, fetching, showCheckoutModal,
                   pc, co, inflight, last, toasts, calls>>
    /\ UNCHANGED view

\* auth.getUser() is answered with the identity of the token it carried, or
\* with none: if (user.data.user) the insert of that identity's row is issued
ProfileGotUser(s, c, fault) ==
    /\ c \in profileFetch[s]
    /\ c.at = "getUser"
    /\ IF fault \/ c.jwt = NoUser
       THEN /\ profileFetch' = [profileFetch EXCEPT ![s] = @ \ {c}]
            /\ ret' = [ret EXCEPT ![s] = ProfileRet(IF fault THEN "fault" ELSE "NoSession")]
       ELSE /\ profileFetch' = [profileFetch EXCEPT ![s] =
                                    (@ \ {c}) \cup {[c EXCEPT !.at = "insert", !.id = c.jwt,
                                                               !.jwt = user[s]]}]
            /\ UNCHANGED ret
    /\ UNCHANGED <<store, profiles, profile, user, cartItems, fetching, showCheckoutModal,
                   pc, co, inflight, last, toasts, calls>>
    /\ UNCHANGED view

\* the error the store answers the insert of fetchProfile with: 42501 when the
\* token is not the row's identity (policy "Users can insert own profile"),
\* 23505 when the identity has a row (profiles.id is the primary key)
ProfileInsertError(c, fault) ==
    IF fault THEN "fault"
    ELSE IF c.jwt # c.id THEN "42501"
    ELSE IF c.id \in profiles THEN "23505"
    ELSE "none"

\* the insert ... .select().single() is answered: setProfile(newProfile), where
\* newProfile is the inserted row, or null when the insert returned an error
ProfileInserted(s, c, fault) ==
    /\ c \in profileFetch[s]
    /\ c.at = "insert"
    /\ profileFetch' = [profileFetch EXCEPT ![s] = @ \ {c}]
    /\ profiles' = IF ProfileInsertError(c, fault) = "none" THEN profiles \cup {c.id} ELSE profiles
    /\ profile' = [profile EXCEPT ![s][c.a] =
                       IF ProfileInsertError(c, fault) = "none" THEN c.id ELSE NoUser]
    /\ ret' = [ret EXCEPT ![s] = ProfileRet(ProfileInsertError(c, fault))]
    /\ UNCHANGED <<store, user, cartItems, fetching, showCheckoutModal,
                   pc, co, inflight, last, toasts, calls>>
    /\ UNCHANGED view

\* what one browser session does about its identity and its profile; a sign in
\* comes while fewer than MaxPending profile fetches are in flight
StepProfile(s) ==
    \/ Cardinality(profileFetch[s]) < MaxPending /\ \E u \in Users : SignIn(s, u)
    \/ SignOut(s)
    \/ \E c \in profileFetch[s], fault \in BOOLEAN : ProfileSelected(s, c, fault)
    \/ \E c \in profileFetch[s], fault \in BOOLEAN : ProfileGotUser(s, c, fault)
    \/ \E c \in profileFetch[s], fault \in BOOLEAN : ProfileInserted(s, c, fault)

NextProfile == StepProfile("s1")

\* a store in which any identity may still be without a profile; an
\* administrator has one
InitProfile ==
    /\ products = ProductsWith([p \in Products |-> MaxStock])
    /\ admins = {"u1"}
    /\ profiles \in {P \in SUBSET Users : admins \subseteq P}
    /\ cart_items = [u \in Users |-> [p \in Products |-> 0]]
    /\ orders = <<>>
    /\ order_items = {}
    /\ ViewInit
    /\ ClientInit

SpecProfile == InitProfile /\ [][NextProfile]_vars

\* ------------------------------------------------------------ catalog view
MaxLen  == 2        \* longest search query, in characters
MaxList == 2        \* longest fetched product list

\* the characters of names, descriptions and queries: two cases of one letter,
\* another letter, and white space
Chars == {"a", "A", "b", " "}

\* String.prototype.toLowerCase, character by character
ToLowerCase(str) == [i \in 1..Len(str) |-> IF str[i] = "A" THEN "a" ELSE str[i]]

RECURSIVE TrimStart(_)
TrimStart(str) ==
    IF str # <<>> /\ Head(str) = " " THEN TrimStart(Tail(str)) ELSE str

RECURSIVE TrimEnd(_)
TrimEnd(str) ==
    IF str # <<>> /\ str[Len(str)] = " " THEN TrimEnd(SubSeq(str, 1, Len(str) - 1)) ELSE str

\* String.prototype.trim
Trim(str) == TrimEnd(TrimStart(str))

\* String.prototype.includes: str.includes(q)
Includes(str, q) ==
    \E i \in 0..(Len(str) - Len(q)) : SubSeq(str, i + 1, i + Len(q)) = q

\* a products row as the catalog view uses it; description is nullable
Item(name, hasDescription, description, category_id) ==
    [name |-> name, description |-> [null |-> ~hasDescription, text |-> description],
     category_id |-> category_id]

Categories == {"c1", "c2"}

\* the rows a fetch may return
Shelf ==
    {Item(<<"A", "b">>, FALSE, <<>>, "c1"),
     Item(<<"b", " ", "a">>, TRUE, <<"a", "A">>, "c2"),
     Item(<<"b">>, TRUE, <<"A", " ", "a">>, NoCategory)}

SeqsUpTo(S, n) == UNION {[1..k -> S] : k \in 0..n}

\* filterProducts that tests the query without trimming it
filterProductsNoTrim(list, query, category) ==
    LET Matches(product) ==
            \/ Includes(ToLowerCase(product.name), ToLowerCase(query))
            \/ /\ ~product.description.null
               /\ Includes(ToLowerCase(product.description.text), ToLowerCase(query))
        InCategory(product) == product.category_id = category
        bySearch == IF query # <<>> THEN SelectSeq(list, Matches) ELSE list
    IN  IF category # NoCategory THEN SelectSeq(bySearch, InCategory) ELSE bySearch

\* filterProducts: the value it passes to setFilteredProducts
\*   if (searchQuery.trim()) filtered = filtered.filter(name or description?. includes the query)
\*   if (selectedCategory) filtered = filtered.filter(category_id === selectedCategory)
filterProducts(list, query, category) ==
    LET Matches(product) ==
            \/ Includes(ToLowerCase(product.name), ToLowerCase(query))
            \/ /\ ~product.description.null
               /\ Includes(ToLowerCase(product.description.text), ToLowerCase(query))
        InCategory(product) == product.category_id = category
        bySearch == IF Trim(query) # <<>> THEN SelectSeq(list, Matches) ELSE list
    IN  IF category # NoCategory THEN SelectSeq(bySearch, InCategory) ELSE bySearch

\* every action of the other sections leaves the catalog view alone; the view
\* leaves everything else alone
ViewOnly ==
    UNCHANGED <<store, user, cartItems, fetching, showCheckoutModal, pc, co, inflight,
                last, toasts, ledger, account>>

\* the search box changes: setSearchQuery(q), and the effect runs filterProducts
SetSearchQuery(q) ==
    /\ q # searchQuery
    /\ searchQuery' = q
    /\ filteredProducts' = filterProducts(catalog, q, selectedCategory)
    /\ UNCHANGED <<catalog, selectedCategory>>
    /\ ViewOnly

\* a category is chosen or cleared: setSelectedCategory(c), and the effect runs
\* filterProducts
SetSelectedCategory(c) ==
    /\ c # selectedCategory
    /\ selectedCategory' = c
    /\ filteredProducts' = filterProducts(catalog, searchQuery, c)
    /\ UNCHANGED <<catalog, searchQuery>>
    /\ ViewOnly

NextFilter ==
    \/ \E q \in SeqsUpTo(Chars, MaxLen) : SetSearchQuery(q)
    \/ \E c \in Categories \cup {NoCategory} : SetSelectedCategory(c)

\* App once fetchData has set the product list and the effect has run
\* filterProducts with no query and no category
InitFilter ==
    /\ products = ProductsWith([p \in Products |-> MaxStock])
    /\ admins = {"u1"}
    /\ profiles = Users
    /\ cart_items = [u \in Users |-> [p \in Products |-> 0]]
    /\ orders = <<>>
    /\ order_items = {}
    /\ ClientInit
    /\ catalog \in SeqsUpTo(Shelf, MaxList)
    /\ searchQuery = <<>>
    /\ selectedCategory = NoCategory
    /\ filteredProducts = filterProducts(catalog, <<>>, NoCategory)

SpecFilter == InitFilter /\ [][NextFilter]_vars

\* ---------------------------------------------------------------- claims
\* the step of session s in which its handler leaves suspend point a for b
Moves(s, a, b) == pc[s] = a /\ pc'[s] = b

\* the persisted lines of order oid
LinesOf(oid) == {l \in order_items : l.order_id = oid}

RECURSIVE SumLines(_)
SumLines(ls) ==
    IF ls = {} THEN 0
    ELSE LET l == CHOOSE x \in ls : TRUE IN l.price * l.quantity + SumLines(ls \ {l})

\* the store calls of one checkout over n cart entries, in program order
Canon(n) == <<"order", "items">> \o [i \in 1..n |-> "stock"] \o <<"clear">>

IsPrefix(a, b) == Len(a) <= Len(b) /\ a = SubSeq(b, 1, Len(a))

\* C1: within one checkout the store writes are issued in the order insert
\* Order, insert Order Lines, one stock update per entry, clear cart; a write
\* is issued only when every earlier one has been answered without error, at
\* most one is in flight, and each table changes only while its own write is
\* the one in flight.
C1_StrictlySequential ==
    /\ [](\A s \in Sessions :
            /\ Cardinality(inflight[s]) <= 1
            /\ IsPrefix(co[s].log, Canon(Len(co[s].items)))
            /\ Len(co[s].log) = co[s].acked + Cardinality(inflight[s])
            /\ Running(s) => inflight[s] = {co[s].log[Len(co[s].log)]} /\ inflight[s] = {pc[s]})
    /\ [][/\ orders' # orders => \E s \in Sessions : inflight[s] = {"order"}
          /\ order_items' # order_items => \E s \in Sessions : inflight[s] = {"items"}
          /\ products' # products => \E s \in Sessions : inflight[s] = {"stock"}
          /\ cart_items' # cart_items => \E s \in Sessions : inflight[s] = {"clear"}]_vars

\* a checkout of a two-entry cart has issued all five writes
C1_Witness ==
    \E s \in Sessions : pc[s] = "clear" /\ Len(co[s].items) = 2 /\ Len(co[s].log) = 5

\* C2: every product's stock is >= 0, and an Order Line for quantity q is
\* persisted only if the product's stock in the store was >= q just before.
C2_PurchaseWithinStock ==
    /\ [](\A p \in Products : products[p].stock_quantity >= 0)
    /\ [][\A l \in order_items' \ order_items :
              products[l.product_id].stock_quantity >= l.quantity]_vars

\* session s has placed an order with a line for p: its checkout ran to the end,
\* so the stock update for p was answered without error
Bought(s, p) ==
    pc[s] = "done" /\ \E l \in LinesOf(last[s].order_id) : l.product_id = p

\* C3: when two sessions check out the last unit of p1 (stock 1, quantity 1
\* each), at most one of them gets its stock decrement through, and no stock
\* goes negative.
C3_LastUnitSoldOnce ==
    /\ \A p \in Products : products[p].stock_quantity >= 0
    /\ Cardinality({s \in Sessions : Bought(s, "p1") /\ user[s] \in admins}) <= 1

\* C4: the total of every persisted order whose lines insert is not still
\* awaited equals the sum of price x quantity over its persisted lines.
C4_TotalIsSumOfLines ==
    \A o \in 1..Len(orders) :
        (\A s \in Sessions : ~(pc[s] = "items" /\ co[s].order_id = o))
            => orders[o].total_amount = SumLines(LinesOf(o))

\* C5: a checkout of an empty cart issues no store call, so no order, no
\* line and no stock update comes of it.
C5_EmptyCartRejected ==
    \A s \in Sessions : co[s].items = <<>> => co[s].log = <<>> /\ inflight[s] = {}

\* the stock the store held when the checkout began covers every entry of its cart
Covered(c) ==
    \A i \in 1..Len(c.items) : c.stock0[c.items[i].product_id] >= c.items[i].quantity

\* C6: a checkout of a non-empty cart whose store calls all succeed ends with
\* exactly one new order (confirmed, paid, total = cart total), one line per
\* entry with the entry's quantity and price, each product's stock reduced by
\* the purchased quantity, and the cart empty in the store and locally
\* (stated for carts the stock covers).
C6_SuccessfulCheckout ==
    [][\A s \in Sessions :
        (Moves(s, "clear", "done") /\ "Failed to clear cart" \notin toasts'[s]
            /\ co[s].items # <<>> /\ Covered(co[s]))
        => LET c == co[s] IN
            /\ Len(orders') = c.orders0 + 1
            /\ orders'[c.order_id] = [user_id |-> c.user, total_amount |-> cartTotal(c.items),
                                      status |-> "confirmed", payment_status |-> "paid"]
            /\ {l \in order_items' : l.order_id = c.order_id}
                 = {[order_id |-> c.order_id, product_id |-> c.items[i].product_id,
                     quantity |-> c.items[i].quantity, price |-> c.items[i].price] :
                        i \in 1..Len(c.items)}
            /\ \A i \in 1..Len(c.items) :
                 products'[c.items[i].product_id].stock_quantity
                    = c.stock0[c.items[i].product_id] - c.items[i].quantity
            /\ \A p \in Products : cart_items'[c.user][p] = 0
            /\ cartItems'[s]["modal"] = <<>>]_vars

\* C7: when the Order insert fails the checkout reports failure and nothing
\* is persisted: the store and the local cart entries are as they were.
C7_OrderInsertFails ==
    [][\A s \in Sessions :
        Moves(s, "order", "failed")
        => /\ "Failed to place order" \in toasts'[s]
           /\ "Order placed successfully!" \notin toasts'[s]
           /\ UNCHANGED <<store, cartItems>>]_vars

C7_Witness ==
    \E s \in Sessions :
        /\ pc[s] = "failed" /\ last[s].failedAt = "order"
        /\ orders = <<>> /\ cartItems[s]["modal"] # <<>>

\* C8: when the Order Lines insert fails the checkout reports failure and
\* stops: the new order stays persisted with no lines, no stock has changed
\* and the cart (store rows, local entries) is retained.
C8_LinesInsertFails ==
    [][\A s \in Sessions :
        Moves(s, "items", "failed")
        => /\ "Failed to place order" \in toasts'[s]
           /\ co[s].order_id \in 1..Len(orders')
           /\ orders'[co[s].order_id] = OrderRow(co[s])
           /\ {l \in order_items' : l.order_id = co[s].order_id} = {}
           /\ \A p \in Products : products'[p].stock_quantity = co[s].stock0[p]
           /\ UNCHANGED <<store, cartItems>>]_vars

C8_Witness ==
    \E s \in Sessions :
        /\ pc[s] = "failed" /\ last[s].failedAt = "items"
        /\ last[s].order_id \in 1..Len(orders)
        /\ orders[last[s].order_id].total_amount > 0
        /\ LinesOf(last[s].order_id) = {}
        /\ cartItems[s]["modal"] # <<>>

\* C9: when the stock update of the k-th entry of a multi-item cart fails the
\* checkout reports failure and stops with the stock of the entries before k
\* decremented, the stock of entry k and the later ones unchanged, the order
\* and all its lines persisted and the cart retained (stated for carts the
\* stock covers).
C9_StockUpdateFails ==
    [][\A s \in Sessions :
        (Moves(s, "stock", "failed") /\ Len(co[s].items) >= 2 /\ Covered(co[s]))
        => LET c == co[s] IN
            /\ "Failed to place order" \in toasts'[s]
            /\ \A i \in 1..Len(c.items) :
                 products'[c.items[i].product_id].stock_quantity
                    = IF i < c.k
                      THEN c.stock0[c.items[i].product_id] - c.items[i].quantity
                      ELSE c.stock0[c.items[i].product_id]
            /\ orders'[c.order_id] = OrderRow(c)
            /\ {l \in order_items' : l.order_id = c.order_id} = OrderItems(c.items, c.order_id)
            /\ UNCHANGED <<cart_items, cartItems>>]_vars

\* C10: when the cart clear fails after steps 1-3 succeeded, the checkout
\* still ends as placed, never as failed; the order, its lines and the stock
\* stay as they are, and the cart rows and local entries remain.
C10_ClearFailureNotFatal ==
    [][\A s \in Sessions :
        (pc[s] = "clear" /\ pc'[s] # "clear")
        => LET c == co[s] IN
            /\ pc'[s] = "done"
            /\ "Order placed successfully!" \in toasts'[s]
            /\ "Failed to place order" \notin toasts'[s]
            /\ orders'[c.order_id] = OrderRow(c)
            /\ {l \in order_items' : l.order_id = c.order_id} = OrderItems(c.items, c.order_id)
            /\ products' = products
            /\ "Failed to clear cart" \in toasts'[s] => UNCHANGED <<store, cartItems>>]_vars

C10_Witness ==
    \E s \in Sessions :
        /\ pc[s] = "done" /\ "Failed to clear cart" \in toasts[s]
        /\ LinesOf(last[s].order_id) # {}
        /\ \E p \in Products : cart_items[user[s]][p] > 0
        /\ cartItems[s]["modal"] # <<>>

\* ---------------------------------------------------- claims: cart ledger
\* the step in which call c of session s is answered
Answered(s, c) == c \in calls[s] /\ c \notin calls'[s]

\* the positions of the entries for product p in a list of cart entries
EntriesOf(items, p) == {i \in 1..Len(items) : items[i].product_id = p}

\* the list holds exactly one entry for product p, and its quantity is q
OneEntry(items, p, q) ==
    /\ Cardinality(EntriesOf(items, p)) = 1
    /\ \A i \in EntriesOf(items, p) : items[i].quantity = q

\* C11: an add for a pair (identity, product) that already has a Cart Entry,
\* which the store answers without a fault while that identity is in session,
\* overwrites: afterwards the store holds one row for the pair with the
\* quantity of this add, and so does the local cart.
C11_AddOverwrites ==
    [][\A s \in Sessions : \A c \in calls[s] :
          (/\ Answered(s, c)
           /\ c.op = "add"
           /\ user[s] = c.user
           /\ cart_items[c.user][c.product_id] > 0
           /\ ret'[s].error # "fault")
          => /\ cart_items'[c.user][c.product_id] = c.quantity
             /\ OneEntry(cartItems'[s][c.h], c.product_id, c.quantity)]_vars

\* no two entries of the list are for the same product
LocalUnique(items) == \A p \in Products : Cardinality(EntriesOf(items, p)) <= 1

\* C12: at most one Cart Entry per (identity, product): every hook instance's
\* local entries are for distinct products in every reachable state, also with
\* mutations overlapping; and the store, whose rows are keyed by the pair,
\* accepts the one inserting call (add) only when the pair has no row.
C12_OneEntryPerPair ==
    /\ [](\A s \in Sessions, h \in Holders : LocalUnique(cartItems[s][h]))
    /\ [][\A s \in Sessions : \A c \in calls[s] :
            (Answered(s, c) /\ c.op = "add" /\ ret'[s].error = "none")
            => cart_items[c.user][c.product_id] = 0]_vars

\* an add whose closure still holds an entry of the product is in flight after
\* an overlapping remove has deleted the row
C12_Witness ==
    \E c \in calls["s1"] :
        /\ c.op = "add"
        /\ user["s1"] = c.user
        /\ EntriesOf(c.items, c.product_id) # {}
        /\ cart_items[c.user][c.product_id] = 0
        /\ Len(cartItems["s1"][c.h]) = 1

\* C13: in every reachable state, for every product and every quantity <= 0,
\* updateQuantity(productId, quantity) and removeFromCart(productId) are
\* callable in the same states, issue the same store call with the same
\* closure, and end with the same store, local entries and notification,
\* whether the store answers with a fault or not.
C13_NonPositiveQuantityIsRemove ==
    \A s \in Sessions, h \in Holders, p \in Products, q \in (-1)..0, fault \in BOOLEAN :
        /\ (ENABLED UpdateQuantity(s, h, p, q)) <=> (ENABLED RemoveFromCart(s, h, p))
        /\ user[s] # NoUser =>
            /\ [UpdateRequest(s, h, p, q) EXCEPT !.via = "removeFromCart"] = RemoveRequest(s, h, p)
            /\ Answer(s, UpdateRequest(s, h, p, q), fault) = Answer(s, RemoveRequest(s, h, p), fault)

\* an updateQuantity(p, 0) has deleted the row and the local entry of p
C13_Witness ==
    /\ ret["s1"].via = "updateQuantity"
    /\ ret["s1"].toast = "Removed from cart"
    /\ \E p \in Products :
        /\ cart_items[user["s1"]][p] = 0
        /\ EntriesOf(cartItems["s1"][Ledger], p) = {}
        /\ Len(cartItems["s1"][Ledger]) = 1

\* the step in which a fetchCartItems of hook instance h is answered
Loaded(s, h) == fetching'[s][h] # fetching[s][h] /\ fetching'[s][h] \subseteq fetching[s][h]

\* C14: when the store answers a load, add, update, remove or clear with an
\* error, the function does not raise, the failure is logged (and, for the
\* mutations, notified with a failure toast), and the local entries stay as
\* they were; local entries change only in a step in which the store has
\* answered without error.
C14_StoreErrorLeavesLocal ==
    [][\A s \in Sessions :
          /\ \A c \in calls[s] :
                (Answered(s, c) /\ ret'[s].error # "none")
                => /\ cartItems'[s] = cartItems[s]
                   /\ ~ret'[s].raised
                   /\ ret'[s].logged
                   /\ ret'[s].toast \notin {"", "Added to cart", "Removed from cart"}
          /\ \A h \in Holders :
                (Loaded(s, h) /\ ret'[s].error # "none")
                => /\ cartItems'[s] = cartItems[s]
                   /\ ~ret'[s].raised
                   /\ ret'[s].logged
          /\ cartItems'[s] # cartItems[s]
                => /\ ret'[s].error = "none"
                   /\ \/ \E c \in calls[s] : Answered(s, c)
                      \/ \E h \in Holders : Loaded(s, h)]_vars

\* a removeFromCart has been answered with an error while the hook instance
\* holds both entries
C14_Witness ==
    /\ ret["s1"].via = "removeFromCart"
    /\ ret["s1"].error = "fault"
    /\ ret["s1"].toast = "Failed to remove from cart"
    /\ Len(cartItems["s1"][Ledger]) = 2

\* C15: addToCart called with no identity in session issues no store call,
\* leaves the store and every local cart as they are, does not raise, and
\* ends with the AuthRequired outcome and the toast 'Please sign in to add
\* items to cart'; no store call is ever issued without an identity.
C15_AddNeedsIdentity ==
    [][\A s \in Sessions :
          /\ (/\ user[s] = NoUser
              /\ ret'[s] # ret[s]
              /\ ret'[s].via = "addToCart"
              /\ \A c \in calls[s] : ~Answered(s, c))
             => /\ calls' = calls
                /\ store' = store
                /\ cartItems' = cartItems
                /\ ret'[s].error = "AuthRequired"
                /\ ret'[s].toast = "Please sign in to add items to cart"
                /\ ~ret'[s].raised
          /\ calls'[s] \ calls[s] # {} => user[s] # NoUser]_vars

\* after a sign out, with the cart rows changed by the earlier identity, an
\* addToCart has ended with AuthRequired
C15_Witness ==
    /\ user["s1"] = NoUser
    /\ ret["s1"].error = "AuthRequired"
    /\ \E u \in Users : cart_items[u]["p1"] # 1

\* the list holds exactly the store's cart rows of identity u, each once, with
\* the row's quantity and the product's catalog price
ExactlyRowsOf(items, u) ==
    /\ Len(items) = Cardinality(CartRows(u))
    /\ \A p \in CartRows(u) :
          /\ OneEntry(items, p, cart_items[u][p])
          /\ \A i \in EntriesOf(items, p) : items[i].price = products[p].price

\* C16: when a load for identity u is answered without error, the hook
\* instance's local cart becomes exactly the store's Cart Entries of u,
\* whatever it held before; a load is issued only for the identity in session;
\* and when the identity goes away no read is issued and every local cart
\* becomes empty.
C16_LoadReplaces ==
    [][\A s \in Sessions :
          /\ \A h \in Holders :
                /\ (Loaded(s, h) /\ ret'[s].error = "none")
                   => \E u \in fetching[s][h] \ fetching'[s][h] :
                         ExactlyRowsOf(cartItems'[s][h], u)
                /\ fetching'[s][h] \ fetching[s][h] \subseteq {user'[s]} \ {NoUser}
          /\ (user[s] # NoUser /\ user'[s] = NoUser)
             => /\ \A h \in Holders : cartItems'[s][h] = <<>>
                /\ fetching'[s] = fetching[s]
                /\ store' = store]_vars

\* a load has been answered with the one row the store holds for the identity,
\* after an earlier mutation had deleted the other
C16_Witness ==
    /\ user["s1"] # NoUser
    /\ ret["s1"].via = "fetchCartItems"
    /\ ret["s1"].error = "none"
    /\ fetching["s1"][Ledger] = {}
    /\ cart_items[user["s1"]]["p1"] = 0
    /\ Len(cartItems["s1"][Ledger]) = 1

\* the entries of a list as a set
Entries(items) == {items[i] : i \in 1..Len(items)}

\* C17: when a removeFromCart(productId), called for an entry the local cart
\* shows, is answered without error, the store has lost the row of (the
\* calling identity, productId) and no other row of any identity has changed,
\* and the local cart has lost the entry of productId and keeps every other
\* entry as it was.
C17_RemoveFrame ==
    [][\A s \in Sessions : \A c \in calls[s] :
          (/\ Answered(s, c)
           /\ c.op = "remove"
           /\ EntriesOf(c.items, c.product_id) # {}
           /\ ret'[s].error = "none")
          => /\ cart_items'[c.user][c.product_id] = 0
             /\ \A u \in Users, p \in Products :
                   <<u, p>> # <<c.user, c.product_id>> => cart_items'[u][p] = cart_items[u][p]
             /\ EntriesOf(cartItems'[s][c.h], c.product_id) = {}
             /\ Entries(cartItems'[s][c.h])
                   = {e \in Entries(cartItems[s][c.h]) : e.product_id # c.product_id}
             /\ \A h \in Holders \ {c.h} : cartItems'[s][h] = cartItems[s][h]]_vars

RECURSIVE SumOfLinePrices(_, _)
\* the sum over the positions I of a list of price x quantity
SumOfLinePrices(items, I) ==
    IF I = {} THEN 0
    ELSE LET i == CHOOSE x \in I : TRUE
         IN items[i].price * items[i].quantity + SumOfLinePrices(items, I \ {i})

RECURSIVE SumOfQuantities(_, _)
\* the sum over the positions I of a list of the quantities
SumOfQuantities(items, I) ==
    IF I = {} THEN 0
    ELSE LET i == CHOOSE x \in I : TRUE
         IN items[i].quantity + SumOfQuantities(items, I \ {i})

\* C18: in every reachable state and for every hook instance, cartTotal is the
\* sum over the local entries of the entry's product price times its quantity,
\* cartCount is the sum of the entries' quantities, and both are 0 for an
\* empty local cart.
C18_TotalAndCount ==
    \A s \in Sessions, h \in Holders :
        /\ cartTotal(cartItems[s][h])
              = SumOfLinePrices(cartItems[s][h], 1..Len(cartItems[s][h]))
        /\ cartCount(cartItems[s][h])
              = SumOfQuantities(cartItems[s][h], 1..Len(cartItems[s][h]))
        /\ cartItems[s][h] = <<>> => cartTotal(cartItems[s][h]) = 0 /\ cartCount(cartItems[s][h]) = 0

\* a local cart of two entries, three units in all, priced by quantity
C18_Witness ==
    /\ Len(cartItems["s1"][Ledger]) = 2
    /\ cartCount(cartItems["s1"][Ledger]) = 3
    /\ cartTotal(cartItems["s1"][Ledger]) > Price("p1") + Price("p2")

\* ------------------------------------------------------ claims: orders
\* C19: a persisted Order Line keeps its unit price and a persisted Order its
\* total amount in every later step, a change of the product's catalog price
\* included: every line stays in order_items as it is and every order keeps
\* its place and its total_amount.
C19_OrdersKeepValue ==
    [][/\ order_items \subseteq order_items'
       /\ Len(orders') >= Len(orders)
       /\ \A i \in 1..Len(orders) : orders'[i].total_amount = orders[i].total_amount]_vars

\* an order with a line is persisted, and the catalog price of the line's
\* product is no longer the price the line was sold at
C19_Witness ==
    /\ pc["s1"] = "done"
    /\ \E l \in order_items :
          /\ l.price = Price(l.product_id)
          /\ products[l.product_id].price # l.price
          /\ orders[l.order_id].total_amount = l.price * l.quantity

\* --------------------------------------------------- claims: ownership
\* C20: every store call of the cart ledger and of the checkout is issued for
\* the identity in session at that moment and touches only that identity's
\* rows: a cart row of u changes only when a call issued for u (carrying u's
\* token) is answered; a call, a load or a checkout is issued only for the
\* identity in session; a load hands over only rows of the identity it was
\* issued for; a new order belongs to the identity whose token its insert
\* carried, and new lines belong to an order of the identity whose token
\* their insert carried; no persisted order or line changes.
C20_OwnRowsOnly ==
    [][\A s \in {"s1"} :
          /\ \A u \in Users :
                cart_items'[u] # cart_items[u]
                => \/ \E c \in calls[s] : Answered(s, c) /\ c.user = u
                   \/ pc[s] = "clear" /\ co[s].user = u /\ co[s].jwt = u
          /\ \A c \in calls'[s] \ calls[s] : c.user = user[s] /\ user[s] # NoUser
          /\ \A h \in Holders :
                /\ fetching'[s][h] \ fetching[s][h] \subseteq {user'[s]} \ {NoUser}
                /\ (Loaded(s, h) /\ cartItems'[s][h] # cartItems[s][h])
                   => \E u \in fetching[s][h] \ fetching'[s][h] :
                         cartItems'[s][h] \in SelectCart(u)
          /\ (pc[s] # "order" /\ pc'[s] = "order")
             => co'[s].user = user[s] /\ co'[s].jwt = user[s] /\ user[s] # NoUser
          /\ Len(orders') >= Len(orders)
          /\ \A i \in 1..Len(orders) : orders'[i] = orders[i]
          /\ \A i \in (Len(orders) + 1)..Len(orders') :
                orders'[i].user_id = co[s].user /\ co[s].user = co[s].jwt
          /\ order_items \subseteq order_items'
          /\ \A l \in order_items' \ order_items :
                /\ l.order_id = co[s].order_id
                /\ orders[l.order_id].user_id = co[s].jwt]_vars

\* another identity is in session after a checkout has persisted an order
\* with a line and cleared the buyer's cart; the other identity's rows are
\* as they were
C20_Witness ==
    \E u, v \in Users :
        /\ u # v
        /\ user["s1"] = v
        /\ Len(orders) = 1
        /\ orders[1].user_id = u
        /\ \E l \in order_items : l.order_id = 1
        /\ \A p \in Products : cart_items[u][p] = 0
        /\ cart_items[v]["p1"] = 1

\* ------------------------------------------------------ claims: catalog
\* session s takes a step of its checkout handler
Acts(s) == pc'[s] # pc[s] \/ co'[s] # co[s]

\* C21: no step of a session whose store call carries the token of a
\* non-administrator changes any field of any product, the checkout's stock
\* update included; a product row changes only in the step in which a stock
\* update issued by an administrator is answered.
C21_OnlyAdminsChangeProducts ==
    [][/\ \A s \in Sessions :
            (Acts(s) /\ (user[s] \notin admins \/ co[s].jwt \notin admins))
            => products' = products
       /\ products' # products
            => \E s \in Sessions :
                  /\ pc[s] = "stock"
                  /\ Acts(s)
                  /\ co[s].jwt \in admins
                  /\ user[s] \in admins]_vars

\* a customer's checkout of one unit of p1 has ended as placed, its line is
\* persisted, and no product row has changed
C21_Witness ==
    \E s \in Sessions :
        /\ user[s] \notin admins \cup {NoUser}
        /\ pc[s] = "done"
        /\ \E l \in LinesOf(last[s].order_id) : l.product_id = "p1" /\ l.quantity = 1
        /\ orders[last[s].order_id].user_id = user[s]
        /\ products = ProductsWith([p \in Products |-> 1])

\* ----------------------------------------------------- claims: profiles
\* the step in which the fetchProfile call c of session s returns
Returned(s, c) ==
    /\ c \in profileFetch[s] \ profileFetch'[s]
    /\ c.at = "insert" \/ (c.at = "select" /\ ret'[s].error # "PGRST116")

\* C22: when a fetchProfile for the identity in session returns and no call of
\* it was answered with a fault, that identity has a profile row in the store
\* and the hook instance's local profile is that row; the store holds at most
\* one profile per identity (the table is keyed by the identity), also with
\* several fetches of the same identity in flight.
C22_ProfileCreatedOnce ==
    [][\A s \in Sessions : \A c \in profileFetch[s] :
          (/\ Returned(s, c)
           /\ user[s] = c.userId
           /\ user'[s] = c.userId
           /\ c.jwt = c.userId
           /\ ret'[s].error \notin {"fault", "NoSession"})
          => /\ c.userId \in profiles'
             /\ profile'[s][c.a] = c.userId]_vars

\* ------------------------------------------------- claims: catalog view
\* q occurs in str, letters compared without regard to case
Occurs(q, str) ==
    \E i \in 0..Len(str) :
        /\ i + Len(q) <= Len(str)
        /\ \A k \in 1..Len(q) : ToLowerCase(str)[i + k] = ToLowerCase(q)[k]

\* the claim's condition on a product, with the query taken as empty when
\* blank says so
Shown(product, blank) ==
    /\ \/ blank
       \/ Occurs(searchQuery, product.name)
       \/ ~product.description.null /\ Occurs(searchQuery, product.description.text)
    /\ selectedCategory = NoCategory \/ product.category_id = selectedCategory

\* the positions of the list whose product meets the condition, in input order
RECURSIVE Kept(_, _, _)
Kept(list, i, blank) ==
    IF i > Len(list) THEN <<>>
    ELSE (IF Shown(list[i], blank) THEN <<list[i]>> ELSE <<>>) \o Kept(list, i + 1, blank)

\* C23 as stated: the filtered list is exactly the products meeting the
\* condition, the query counting as empty only when it has no character.
C23_FilterAsStated == filteredProducts = Kept(catalog, 1, searchQuery = <<>>)

\* C23: the filtered list is exactly the products, in input order, for which
\* (the query is empty or all white space, or occurs case-insensitively in the
\* name, or in a present description) and (no category is chosen or it is the
\* product's); with no query and no category it is the whole list; and the
\* product list itself never changes.
C23_Filter ==
    /\ [](/\ filteredProducts
               = Kept(catalog, 1, \A i \in 1..Len(searchQuery) : searchQuery[i] = " ")
          /\ (searchQuery = <<>> /\ selectedCategory = NoCategory) => filteredProducts = catalog)
    /\ [][catalog' = catalog]_vars

\* a query of one blank and a letter has kept the second product of two and
\* dropped the first
C23_Witness ==
    /\ Len(catalog) = 2
    /\ Len(searchQuery) = 2
    /\ searchQuery[1] = " "
    /\ searchQuery[2] # " "
    /\ filteredProducts = <<catalog[2]>>
    /\ catalog[1] # catalog[2]

\* ------------------------------------------------- claims: stock writes
\* C24: every stock update of checkout step 3 that the store answers without
\* error leaves the product's stock in the store at (the stock held in the cart
\* entry's product snapshot) minus (the entry's quantity), whatever the stock
\* in the store was.
C24_StockWriteFromSnapshot ==
    [][\A s \in Sessions :
          (pc[s] = "stock" /\ Acts(s) /\ pc'[s] # "failed")
          => LET item == co[s].items[co[s].k]
             IN  products'[item.product_id].stock_quantity
                    = item.stock_quantity - item.quantity]_vars

\* ------------------------------------------------ claims: setQuantity
\* C25: when an updateQuantity(productId, q) with q > 0 is answered without
\* error, the row of (the calling identity, productId) existed and now has
\* quantity q, no other row has changed, and the local cart has the same
\* entries in the same places, the one of productId with quantity q and every
\* other as it was; when the identity has no row for productId the call
\* leaves store and local cart unchanged.
C25_SetQuantityFrame ==
    [][\A s \in Sessions : \A c \in calls[s] :
          (Answered(s, c) /\ c.op = "update" /\ ret'[s].error # "fault")
          => IF cart_items[c.user][c.product_id] = 0
             THEN cart_items' = cart_items /\ cartItems' = cartItems
             ELSE /\ cart_items' = [cart_items EXCEPT ![c.user][c.product_id] = c.quantity]
                  /\ Len(cartItems'[s][c.h]) = Len(cartItems[s][c.h])
                  /\ \A i \in 1..Len(cartItems[s][c.h]) :
                        cartItems'[s][c.h][i]
                           = IF cartItems[s][c.h][i].product_id = c.product_id
                             THEN [cartItems[s][c.h][i] EXCEPT !.quantity = c.quantity]
                             ELSE cartItems[s][c.h][i]
                  /\ \A h \in Holders \ {c.h} : cartItems'[s][h] = cartItems[s][h]]_vars

\* --------------------------------------------------- claims: inventory
\* the units of product p on the persisted order lines
RECURSIVE UnitsSold(_, _)
UnitsSold(ls, p) ==
    IF ls = {} THEN 0
    ELSE LET l == CHOOSE x \in ls : TRUE
         IN  (IF l.product_id = p THEN l.quantity ELSE 0) + UnitsSold(ls \ {l}, p)

\* C26: in every state in which no checkout is in progress (here: none has
\* failed either), every product's initial stock, one unit, equals its stock
\* in the store plus the units on the persisted order lines that reference it.
C26_InventoryConserved ==
    (\A s \in Sessions : pc[s] \in {"idle", "done"})
    => \A p \in Products :
          products[p].stock_quantity + UnitsSold(order_items, p) = 1

\* ---------------------------------------------- claims: session identity
\* C27: the local cart of every hook instance is empty whenever no identity is
\* in session, and it takes new entries only from a load or a call that was
\* issued for the identity in session at that moment, also when a load or a
\* call issued for an earlier identity is answered after a sign out or under
\* the next identity.
C27_LocalCartOfSessionIdentity ==
    /\ [](\A s \in Sessions, h \in Holders : user[s] = NoUser => cartItems[s][h] = <<>>)
    /\ [][\A s \in Sessions, h \in Holders :
            (cartItems'[s][h] # cartItems[s][h] /\ cartItems'[s][h] # <<>>)
            => \/ \E u \in fetching[s][h] \ fetching'[s][h] : u = user'[s]
               \/ \E c \in calls[s] : Answered(s, c) /\ c.h = h /\ c.user = user'[s]]_vars

\* ------------------------------------------------ claims: hook instances
\* the last cart function of session s to end was a mutation that succeeded,
\* or its checkout has ended as placed, and nothing of the session is in flight
Settled(s) ==
    /\ user[s] # NoUser
    /\ calls[s] = {}
    /\ \A h \in Holders : fetching[s][h] = {}
    /\ ~Running(s)
    /\ \/ /\ ret[s].via \in {"addToCart", "updateQuantity", "removeFromCart", "clearCart"}
          /\ ret[s].error = "none"
       \/ pc[s] = "done" /\ "Failed to clear cart" \notin toasts[s]

\* C28: once a mutation or a checkout issued through one hook instance has
\* ended successfully and nothing else of the session is in flight, the
\* entries held by every hook instance of the session are the store's cart
\* rows of the identity; and a checkout started with no load in flight turns
\* into order lines the entries the sidebar shows.
C28_HoldersAgree ==
    /\ [](\A s \in {"s1"} :
            Settled(s) => \A h \in Holders : ExactlyRowsOf(cartItems[s][h], user[s]))
    /\ [][\A s \in {"s1"} :
            (pc[s] # "order" /\ pc'[s] = "order" /\ \A h \in Holders : fetching[s][h] = {})
            => Entries(co'[s].items) = Entries(cartItems[s]["sidebar"])]_vars

\* --------------------------------------------- claims: overlapping calls
\* C29: when a mutation whose closure was taken from a loaded cart is answered
\* without error while the local cart equals the store's rows of the identity
\* (every earlier call has taken effect in both), the local cart equals the
\* store's rows afterwards too: the answer adds its own effect and neither
\* drops nor brings back the effect of a call answered in between.
C29_OverlapKeepsAgreement ==
    [][\A s \in Sessions : \A c \in calls[s] :
          (/\ Answered(s, c)
           /\ ret'[s].error = "none"
           /\ c.user = user[s]
           /\ c.items # <<>>
           /\ ExactlyRowsOf(cartItems[s][c.h], c.user))
          => ExactlyRowsOf(cartItems[s][c.h], c.user)']_vars

\* ------------------------------------------------ claims: cart clear
\* C30: the cart clear that ends a checkout of a non-empty cart deletes a cart
\* row only if a line of the new order covers it, the same product with the
\* row's quantity; a row that another session of the identity added while the
\* checkout was in progress is not deleted.
C30_ClearOnlyPurchased ==
    [][\A s \in Sessions :
          (pc[s] = "clear" /\ Acts(s) /\ co[s].items # <<>>)
          => \A p \in Products :
                (cart_items[co[s].user][p] > 0 /\ cart_items'[co[s].user][p] = 0)
                => \E l \in LinesOf(co[s].order_id) :
                      l.product_id = p /\ l.quantity = cart_items[co[s].user][p]]_vars
====
